---------------------------- MODULE Spec2Model ----------------------------
(***************************************************************************)
(* Model of the country-leaders scraper: leaders_scraper.py (procedural)   *)
(* and leaders_scraper_OOP_.py (class CountryLeadersAPI).                  *)
(*                                                                         *)
(* Texts are sequences of characters; a character is a one-character       *)
(* string, except the two IPA stress marks, written "IPA1" (primary) and   *)
(* "IPA2" (secondary).  JSON values are tagged records [t, v].             *)
(***************************************************************************)
EXTENDS Naturals, Sequences, FiniteSets, TLC

VARIABLES
    variant,              \* "procedural" | "oop": which of the two files runs
    pc,                   \* position of the run
    cookies,              \* the session held (0: none yet; n: the n-th issued)
    issued,               \* sessions the /cookie endpoint has issued so far
    countries,            \* the sequence the country loop iterates over
    countriesStatus,      \* status code of the /countries response (0: none)
    idx,                  \* position of the loop in countries
    response,             \* the /leaders response held in `response`
    leaders,              \* the list being enriched
    k,                    \* position of the leader loop in leaders
    all_leaders,          \* the dict all_leaders
    leaders_per_country,  \* what get_leaders() returned, once it has
    raised,               \* history: the except clause ran for this country
    resps,                \* history: /leaders responses received, this country
    nLeadersReq,          \* history: /leaders requests sent, this country
    nCookieReq,           \* history: /cookie requests sent, this country
    lastReq,              \* history: the latest API request and its outcome
    calls,                \* history: extractor calls made, this country
    soup,                 \* get_first_paragraph: the page's paragraph blocks
    clean_text,           \* get_first_paragraph: its return value
    raw_text,             \* get_first_paragraph: the paragraph text being cleaned
    trail,                \* history: the values clean_text took, in order
    again,                \* the sanitizer's result on its own output
    document,             \* leaders.json: the tokens written to it
    loaded,               \* read(): what json.load returned
    trace,                \* history: the requests made before the loop
    cookieReqs            \* history: /cookie requests sent in the whole run

vars == <<variant, pc, cookies, issued, countries, countriesStatus, idx,
          response, leaders, k, all_leaders, leaders_per_country, raised,
          resps, nLeadersReq, nCookieReq, lastReq, calls, soup, clean_text,
          raw_text, trail, again, document, loaded, trace, cookieReqs>>

(***************************************************************************)
(* Bounds of the model.                                                    *)
(***************************************************************************)
MaxCountries == 2
MaxBlocks == 2

(***************************************************************************)
(* Text helpers.                                                           *)
(***************************************************************************)
Rep(c, n) == [j \in 1..n |-> c]

\* The concatenation of a sequence of sequences.
RECURSIVE Flatten(_)
Flatten(pieces) ==
    IF pieces = <<>> THEN <<>>
    ELSE IF Len(pieces) = 1 THEN pieces[1]
    ELSE LET half == Len(pieces) \div 2
         IN  Flatten(SubSeq(pieces, 1, half))
                 \o Flatten(SubSeq(pieces, half + 1, Len(pieces)))

StartsWith(text, prefix) ==
    /\ Len(text) >= Len(prefix)
    /\ SubSeq(text, 1, Len(prefix)) = prefix

Contains(text, c) == \E j \in 1..Len(text) : text[j] = c

\* Index of the first occurrence of c in text after position p, 0 when none.
FirstAfter(text, p, c) ==
    LET hits == {j \in (p + 1)..Len(text) : text[j] = c}
    IN  IF hits = {} THEN 0
        ELSE CHOOSE j \in hits : \A h \in hits : j <= h

(***************************************************************************)
(* The paragraph filter of get_first_paragraph.                            *)
(***************************************************************************)
MinParagraphLength == 80
MaxShortParen == 25

Coordinates == <<"C", "o", "o", "r", "d", "i", "n", "a", "t", "e", "s">>
ExcludedStarts == {<<"[">>, <<"(">>, Coordinates}

Suitable_LenOffByOne(text) ==
    /\ Len(text) >= MinParagraphLength
    /\ Contains(text, ".")
    /\ ~ \E p \in ExcludedStarts : StartsWith(text, p)

\* len(text) > 80 and "." in text and not text.startswith(("[", "(", "Coordinates"))
Suitable(text) ==
    /\ Len(text) > MinParagraphLength
    /\ Contains(text, ".")
    /\ ~ \E p \in ExcludedStarts : StartsWith(text, p)

(***************************************************************************)
(* The four re.sub calls.  Each of the first three patterns is an opening  *)
(* character, a content holding no closing character, and the closing      *)
(* character: at an opening character at p the only candidate match ends   *)
(* at the first closing character after p.  re.sub replaces the leftmost   *)
(* matches, left to right, without overlap.                                *)
(***************************************************************************)
PronunciationMarks == {"/", "IPA1", "IPA2"}

\* [^)]*[/ + the two stress marks][^)]* : the content holds one of the marks
IsPronunciation(content) ==
    \E m \in PronunciationMarks : Contains(content, m)

IsShortParen_AllowEmpty(content) ==
    Len(content) <= MaxShortParen

\* [^)]{1,25} : the content has 1 to 25 characters
IsShortParen(content) ==
    1 <= Len(content) /\ Len(content) <= MaxShortParen

Matches(rule, content) ==
    CASE rule = "citation" -> TRUE
      [] rule = "pronunciation" -> IsPronunciation(content)
      [] rule = "short" -> IsShortParen(content)

\* Where the pattern matches: an opening character whose content, up to
\* the first closing character after it, satisfies the rule.
MatchesAt(text, j, open, close, rule) ==
    LET q == FirstAfter(text, j, close)
    IN  text[j] = open /\ q # 0 /\ Matches(rule, SubSeq(text, j + 1, q - 1))

\* re.sub(pattern, '', text) from position p on: the text up to the leftmost
\* match, then the substitution of what follows that match.
RECURSIVE SubDelimited(_, _, _, _, _)
SubDelimited(text, p, open, close, rule) ==
    LET starts == {j \in p..Len(text) : MatchesAt(text, j, open, close, rule)}
    IN  IF starts = {} THEN SubSeq(text, p, Len(text))
        ELSE LET j == CHOOSE m \in starts : \A h \in starts : m <= h
             IN  SubSeq(text, p, j - 1)
                 \o SubDelimited(text, FirstAfter(text, j, close) + 1, open, close, rule)

\* re.sub(r'\[[^\]]*\]', '', text)
RemoveCitations(text) == SubDelimited(text, 1, "[", "]", "citation")

\* re.sub(r'\([^)]*[/ + the two stress marks][^)]*\)', '', clean_text)
RemovePronunciations(text) == SubDelimited(text, 1, "(", ")", "pronunciation")

\* re.sub(r'\(([^)]{1,25})\)', '', clean_text)
RemoveShortParens(text) == SubDelimited(text, 1, "(", ")", "short")

Whitespace == {" ", "\t", "\n"}

\* re.sub(r'\s+', ' ', clean_text): of each run of whitespace the first
\* character stays, as a space.
CollapseWhitespace(text) ==
    LET RunStart(j) == ~ (text[j] \in Whitespace /\ j > 1 /\ text[j - 1] \in Whitespace)
        kept == SelectSeq([j \in 1..Len(text) |-> j], RunStart)
    IN  [n \in 1..Len(kept) |->
            IF text[kept[n]] \in Whitespace THEN " " ELSE text[kept[n]]]

Sanitize(text) ==
    CollapseWhitespace(RemoveShortParens(RemovePronunciations(RemoveCitations(text))))

NoParagraph ==
    <<"N", "o", " ", "s", "u", "i", "t", "a", "b", "l", "e", " ",
      "p", "a", "r", "a", "g", "r", "a", "p", "h", " ",
      "f", "o", "u", "n", "d", ".">>

\* for p in soup.select("#mw-content-text p"): ... return clean_text
RECURSIVE ScanParagraphs(_, _)
ScanParagraphs(blocks, j) ==
    IF j > Len(blocks) THEN NoParagraph
    ELSE IF Suitable(blocks[j]) THEN Sanitize(blocks[j])
         ELSE ScanParagraphs(blocks, j + 1)

\* The part of get_first_paragraph after the page is fetched and parsed:
\* blocks are the get_text(strip=True) texts of the page's paragraphs.
get_first_paragraph(blocks) == ScanParagraphs(blocks, 1)

(***************************************************************************)
(* JSON values, as json() returns them.                                    *)
(***************************************************************************)
JArray(seq) == [t |-> "array", v |-> seq]
JObject(f) == [t |-> "object", v |-> f]
JString(str) == [t |-> "string", v |-> str]
JNull == [t |-> "null"]
NotJson == [t |-> "invalid"]

\* leader.get("wikipedia_url") is truthy
HasUrl(leader) ==
    /\ "wikipedia_url" \in DOMAIN leader.v
    /\ leader.v["wikipedia_url"] # ""

\* leader['first_paragraph'] = text
SetFirstParagraph(leader, text) ==
    JObject([f \in DOMAIN leader.v \cup {"first_paragraph"} |->
                IF f = "first_paragraph" THEN text ELSE leader.v[f]])

\* all_leaders[country] = value
Put(dict, country, value) ==
    [c \in DOMAIN dict \cup {country} |-> IF c = country THEN value ELSE dict[c]]

EmptyDict == <<>>

(***************************************************************************)
(* What the servers may answer.                                            *)
(***************************************************************************)
CountryNames == <<"be", "fr", "ma", "ru", "us">>

\* Country lists up to renaming: the j-th entry is one seen before or the
\* next new name, so lists with repeated countries are among them.
CountryLists ==
    UNION {
        { [j \in 1..n |-> CountryNames[s[j]]] :
            s \in { f \in [1..n -> 1..n] :
                      \A j \in 1..n :
                          \/ f[j] = 1
                          \/ \E h \in 1..(j - 1) : f[h] = f[j] \/ f[h] + 1 = f[j] } }
        : n \in 0..MaxCountries }

ErrorBody == JObject([message |-> JString("The cookie is missing")])

CountriesResponses ==
    { [status |-> 200, body |-> JArray(list)] : list \in CountryLists }
    \cup { [status |-> 403, body |-> ErrorBody], [status |-> 500, body |-> NotJson] }

LeaderA == JObject([name |-> "A", wikipedia_url |-> "wiki/A"])
LeaderB == JObject([name |-> "B"])
LeaderC == JObject([name |-> "C", wikipedia_url |-> ""])
LeaderD == JObject([name |-> "D", wikipedia_url |-> "wiki/D",
                    first_paragraph |-> <<"o", "l", "d">>])

LeaderBodies ==
    { JArray(<<LeaderA, LeaderB, LeaderD>>),
      JObject([leaders |-> JArray(<<LeaderC, LeaderA>>)]),
      JArray(<<>>),
      JArray(<<LeaderA, JString("x")>>),
      JObject([leaders |-> JNull]),
      JString("maintenance"),
      ErrorBody,
      NotJson }

LeadersResponses ==
    { [status |-> 200, body |-> b] : b \in LeaderBodies }
    \cup { [status |-> 201, body |-> JArray(<<LeaderB>>)],
           [status |-> 401, body |-> ErrorBody],
           [status |-> 403, body |-> ErrorBody],
           [status |-> 500, body |-> NotJson] }

StatusCodes == {200, 503}

Sentence ==
    <<"B", "o", "r", "n", " ", "(", "1", "9", "2", "0", ")", " ",
      "i", "n", " ", "P", "a", "r", "i", "s", "[", "1", "]", ".">>

\* The paragraph texts of two Wikipedia pages: a lead paragraph of more
\* than 80 characters, with a quoted word and a backslash in it, after a
\* short one, and a page of short paragraphs.
Quoted == <<" ", "\"", "Q", "\"", " ", "\\", " ">>

WikiPages ==
    { << <<"S", "t", "u", "b", ".">>,
         Sentence \o Quoted \o Rep("a", MinParagraphLength) >>,
      << <<"S", "t", "u", "b", ".">> >> }

NoResponse == [status |-> 0, body |-> NotJson]
NoRequest == [ep |-> "none", sess |-> 0, ok |-> TRUE]
NotReturned == [returned |-> FALSE]
NoDocument == [written |-> FALSE]
NotLoaded == [loaded |-> FALSE]

(***************************************************************************)
(* The run.                                                                *)
(***************************************************************************)
Init ==
    /\ variant \in {"procedural", "oop"}
    /\ pc = IF variant = "procedural" THEN "status" ELSE "cookie"
    /\ cookies = 0
    /\ issued = 0
    /\ countries = <<>>
    /\ countriesStatus = 0
    /\ idx = 0
    /\ response = NoResponse
    /\ leaders = <<>>
    /\ k = 0
    /\ all_leaders = EmptyDict
    /\ leaders_per_country = NotReturned
    /\ raised = FALSE
    /\ resps = <<>>
    /\ nLeadersReq = 0
    /\ nCookieReq = 0
    /\ lastReq = NoRequest
    /\ calls = <<>>
    /\ soup = <<>>
    /\ clean_text = <<>>
    /\ raw_text = <<>>
    /\ trail = <<>>
    /\ again = <<>>
    /\ document = NoDocument
    /\ loaded = NotLoaded
    /\ trace = <<>>
    /\ cookieReqs = 0

Request(ep, ok) == [ep |-> ep, sess |-> cookies, ok |-> ok]

loopVars == <<idx, response, leaders, k, all_leaders, raised, resps,
              nLeadersReq, nCookieReq, calls>>
paraVars == <<soup, clean_text, raw_text, trail, again>>
fileVars == <<document, loaded>>

\* rq.get(url + '/status'): the status code is only printed
GetStatus ==
    /\ pc = "status"
    /\ \/ /\ lastReq' = [ep |-> "status", sess |-> 0, ok |-> FALSE]
          /\ pc' = "aborted"
       \/ \E status \in StatusCodes :
             /\ lastReq' = [ep |-> "status", sess |-> 0, ok |-> TRUE]
             /\ pc' = IF variant = "procedural" THEN "cookie" ELSE "countries"
    /\ UNCHANGED <<variant, cookies, issued, countries, countriesStatus,
                   leaders_per_country>>
    /\ UNCHANGED loopVars
    /\ UNCHANGED paraVars
    /\ UNCHANGED fileVars
    /\ trace' = Append(trace, "status")
    /\ UNCHANGED cookieReqs

AfterCookie_Countries(v) == "countries"

\* What follows the first /cookie request: the procedural get_leaders
\* goes on to /countries; __init__ returns and get_leaders starts with
\* get_status().
AfterCookie(v) == IF v = "procedural" THEN "countries" ELSE "status"

GetCookie_Swallow ==
    /\ pc = "cookie"
    /\ \E ok \in BOOLEAN :
          /\ lastReq' = [ep |-> "cookie", sess |-> 0, ok |-> ok]
          /\ IF ok
             THEN /\ issued' = issued + 1
                  /\ cookies' = issued + 1
             ELSE UNCHANGED <<issued, cookies>>
          /\ pc' = AfterCookie(variant)
    /\ UNCHANGED <<variant, countries, countriesStatus, leaders_per_country>>
    /\ UNCHANGED loopVars
    /\ UNCHANGED paraVars
    /\ UNCHANGED fileVars
    /\ trace' = Append(trace, "cookie")
    /\ cookieReqs' = cookieReqs + 1

\* cookies = rq.get(url + '/cookie').cookies, before the loop
GetCookie ==
    /\ pc = "cookie"
    /\ \E ok \in BOOLEAN :
          /\ lastReq' = [ep |-> "cookie", sess |-> 0, ok |-> ok]
          /\ IF ok
             THEN /\ issued' = issued + 1
                  /\ cookies' = issued + 1
                  /\ pc' = AfterCookie(variant)
             ELSE /\ UNCHANGED <<issued, cookies>>
                  /\ pc' = "aborted"
    /\ UNCHANGED <<variant, countries, countriesStatus, leaders_per_country>>
    /\ UNCHANGED loopVars
    /\ UNCHANGED paraVars
    /\ UNCHANGED fileVars
    /\ trace' = Append(trace, "cookie")
    /\ cookieReqs' = cookieReqs + 1

\* for country in countries: a list yields its items, a dict its keys
Iterate(json) ==
    IF json.t = "array" THEN json.v
    ELSE LET keys == DOMAIN json.v
         IN  CHOOSE seq \in [1..Cardinality(keys) -> keys] :
                \A key \in keys : \E j \in DOMAIN seq : seq[j] = key

\* countries = rq.get(url + "/countries", cookies=cookies).json()
GetCountries ==
    /\ pc = "countries"
    /\ \/ /\ lastReq' = Request("countries", FALSE)
          /\ pc' = "aborted"
          /\ UNCHANGED <<countries, countriesStatus>>
       \/ \E r \in CountriesResponses :
             /\ lastReq' = Request("countries", TRUE)
             /\ countriesStatus' = r.status
             /\ IF r.body.t \in {"array", "object"}
                THEN /\ countries' = Iterate(r.body)
                     /\ pc' = "loop"
                ELSE /\ UNCHANGED countries
                     /\ pc' = "aborted"
    /\ UNCHANGED <<variant, cookies, issued, leaders_per_country>>
    /\ UNCHANGED loopVars
    /\ UNCHANGED paraVars
    /\ UNCHANGED fileVars
    /\ trace' = Append(trace, "countries")
    /\ UNCHANGED cookieReqs


(***************************************************************************)
(* The country loop.                                                       *)
(***************************************************************************)
Country == countries[idx]

IsAuthFailure_AnyError(status) == status >= 400

\* if response.status_code in [401, 403]
IsAuthFailure(status) == status \in {401, 403}

IsFailure_Non2xx(status) == status \notin 200..299

\* if response.status_code != 200
IsFailure(status) == status # 200

ExceptDict_Drop(dict, country) == dict

ExceptDict_Partial(dict, country) == Put(dict, country, leaders)

\* except Exception as e: ... all_leaders[country] = []
ExceptDict(dict, country) == Put(dict, country, <<>>)

Except_Abort ==
    /\ pc' = "aborted"
    /\ raised' = TRUE
    /\ UNCHANGED all_leaders

Except ==
    /\ all_leaders' = ExceptDict(all_leaders, Country)
    /\ raised' = TRUE
    /\ pc' = "recorded"

\* for country in countries: the next country, or return all_leaders
NextIndex_Stay(i) == IF i = 0 THEN 1 ELSE i

\* for country in countries: the position of the next element
NextIndex(i) == i + 1

NextCountry ==
    /\ pc \in {"loop", "recorded"}
    /\ IF idx < Len(countries)
       THEN /\ idx' = NextIndex(idx)
            /\ pc' = "request"
            /\ UNCHANGED leaders_per_country
       ELSE /\ pc' = "returned"
            /\ leaders_per_country' = [returned |-> TRUE, map |-> all_leaders]
            /\ UNCHANGED idx
    /\ response' = NoResponse
    /\ leaders' = <<>>
    /\ k' = 0
    /\ raised' = FALSE
    /\ resps' = <<>>
    /\ nLeadersReq' = 0
    /\ nCookieReq' = 0
    /\ calls' = <<>>
    /\ UNCHANGED <<variant, cookies, issued, countries, countriesStatus,
                   all_leaders, lastReq>>
    /\ UNCHANGED paraVars
    /\ UNCHANGED fileVars
    /\ UNCHANGED <<trace, cookieReqs>>

\* The response of a /leaders request: renewal on 401/403, else the check.
AfterFirstResponse(status) == IF IsAuthFailure(status) THEN "renew" ELSE "check"

\* response = rq.get(url + "/leaders", cookies=cookies, params={"country": country})
RequestLeaders ==
    /\ pc = "request"
    /\ nLeadersReq' = nLeadersReq + 1
    /\ \/ /\ lastReq' = Request("leaders", FALSE)
          /\ Except
          /\ UNCHANGED <<response, resps>>
       \/ \E r \in LeadersResponses :
             /\ lastReq' = Request("leaders", TRUE)
             /\ response' = r
             /\ resps' = Append(resps, r)
             /\ pc' = AfterFirstResponse(r.status)
             /\ UNCHANGED <<all_leaders, raised>>
    /\ UNCHANGED <<variant, cookies, issued, countries, countriesStatus, idx,
                   leaders, k, leaders_per_country, nCookieReq, calls>>
    /\ UNCHANGED paraVars
    /\ UNCHANGED fileVars
    /\ UNCHANGED <<trace, cookieReqs>>

KeptCookies_Cleared(old) == 0

\* The request raises before cookies is assigned: cookies keeps its value.
KeptCookies(old) == old

RenewedCookies_Stale(old, new) == old

\* The session sent with the retry: the one just stored in cookies.
RenewedCookies(old, new) == new

\* cookies = rq.get(url + "/cookie").cookies, inside the try
RenewCookie ==
    /\ pc = "renew"
    /\ nCookieReq' = nCookieReq + 1
    /\ \/ /\ lastReq' = [ep |-> "cookie", sess |-> 0, ok |-> FALSE]
          /\ Except
          /\ cookies' = KeptCookies(cookies)
          /\ UNCHANGED issued
       \/ /\ lastReq' = [ep |-> "cookie", sess |-> 0, ok |-> TRUE]
          /\ issued' = issued + 1
          /\ cookies' = RenewedCookies(cookies, issued + 1)
          /\ pc' = "retry"
          /\ UNCHANGED <<all_leaders, raised>>
    /\ UNCHANGED <<variant, countries, countriesStatus, idx, response, leaders,
                   k, leaders_per_country, resps, nLeadersReq, calls>>
    /\ UNCHANGED paraVars
    /\ UNCHANGED fileVars
    /\ UNCHANGED trace
    /\ cookieReqs' = cookieReqs + 1

AfterRetryResponse_Again(status) == AfterFirstResponse(status)

\* After the retry there is no second test for 401/403.
AfterRetryResponse(status) == "check"

\* response = rq.get(...) again, with the new cookies
RetryLeaders ==
    /\ pc = "retry"
    /\ nLeadersReq' = nLeadersReq + 1
    /\ \/ /\ lastReq' = Request("leaders", FALSE)
          /\ Except
          /\ UNCHANGED <<response, resps>>
       \/ \E r \in LeadersResponses :
             /\ lastReq' = Request("leaders", TRUE)
             /\ response' = r
             /\ resps' = Append(resps, r)
             /\ pc' = AfterRetryResponse(r.status)
             /\ UNCHANGED <<all_leaders, raised>>
    /\ UNCHANGED <<variant, cookies, issued, countries, countriesStatus, idx,
                   leaders, k, leaders_per_country, nCookieReq, calls>>
    /\ UNCHANGED paraVars
    /\ UNCHANGED fileVars
    /\ UNCHANGED <<trace, cookieReqs>>

Raises == [ok |-> FALSE]
Returns(value) == [ok |-> TRUE, v |-> value]

\* leaders = response.json() if isinstance(response.json(), list)
\*           else response.json().get("leaders", [])
\* and the iteration `for leader in leaders`, which needs a list.
ParseLeaders(body) ==
    CASE body.t = "invalid" -> Raises
      [] body.t = "array" -> Returns(body.v)
      [] body.t = "object" ->
            IF "leaders" \notin DOMAIN body.v THEN Returns(<<>>)
            ELSE IF body.v["leaders"].t = "array"
                 THEN Returns(body.v["leaders"].v)
                 ELSE Raises
      [] OTHER -> Raises

FailureDict_Skip(dict, country) == dict

\* print("Failed to get leaders ..."); all_leaders[country] = []; continue
FailureDict(dict, country) == Put(dict, country, <<>>)

Decisive_First(held, received) == received[1]

\* The response the outcome is decided on.
Decisive(held, received) == held

\* if response.status_code != 200: all_leaders[country] = []; continue
\* else: leaders = ...
CheckResponse ==
    /\ pc = "check"
    /\ LET r == Decisive(response, resps)
           parsed == ParseLeaders(r.body)
       IN  IF IsFailure(r.status)
           THEN /\ all_leaders' = FailureDict(all_leaders, Country)
                /\ pc' = "recorded"
                /\ UNCHANGED <<leaders, k, raised>>
           ELSE IF parsed.ok
                THEN /\ leaders' = parsed.v
                     /\ k' = 1
                     /\ pc' = "enrich"
                     /\ UNCHANGED <<all_leaders, raised>>
                ELSE /\ Except
                     /\ UNCHANGED <<leaders, k>>
    /\ UNCHANGED <<variant, cookies, issued, countries, countriesStatus, idx,
                   response, leaders_per_country, resps, nLeadersReq,
                   nCookieReq, lastReq, calls>>
    /\ UNCHANGED paraVars
    /\ UNCHANGED fileVars
    /\ UNCHANGED <<trace, cookieReqs>>

NeedsParagraph_KeyPresent(leader) == "wikipedia_url" \in DOMAIN leader.v

\* Whether the extractor is called for this leader.
NeedsParagraph(leader) == HasUrl(leader)

\* for leader in leaders: one leader
\*     wikipedia_url = leader.get("wikipedia_url")
\*     if wikipedia_url: leader['first_paragraph'] = get_first_paragraph(...)
EnrichLeader ==
    /\ pc = "enrich"
    /\ k <= Len(leaders)
    /\ LET leader == leaders[k]
       IN  IF leader.t # "object"
           THEN /\ Except
                /\ UNCHANGED <<leaders, k, calls, lastReq>>
           ELSE IF NeedsParagraph(leader)
                THEN \/ /\ lastReq' = [ep |-> "wiki", sess |-> 0, ok |-> FALSE]
                        /\ calls' = Append(calls, [leader |-> k, ok |-> FALSE,
                                                   text |-> <<>>])
                        /\ Except
                        /\ UNCHANGED <<leaders, k>>
                     \/ \E page \in WikiPages :
                           LET text == get_first_paragraph(page)
                           IN  /\ lastReq' = [ep |-> "wiki", sess |-> 0, ok |-> TRUE]
                               /\ calls' = Append(calls, [leader |-> k, ok |-> TRUE,
                                                          text |-> text])
                               /\ leaders' = [leaders EXCEPT
                                                ![k] = SetFirstParagraph(leader, text)]
                               /\ k' = k + 1
                               /\ UNCHANGED <<all_leaders, raised, pc>>
                ELSE /\ k' = k + 1
                     /\ UNCHANGED <<leaders, calls, lastReq, all_leaders,
                                    raised, pc>>
    /\ UNCHANGED <<variant, cookies, issued, countries, countriesStatus, idx,
                   response, leaders_per_country, resps, nLeadersReq, nCookieReq>>
    /\ UNCHANGED paraVars
    /\ UNCHANGED fileVars
    /\ UNCHANGED <<trace, cookieReqs>>

\* all_leaders[country] = leaders
StoreLeaders ==
    /\ pc = "enrich"
    /\ k > Len(leaders)
    /\ all_leaders' = Put(all_leaders, Country, leaders)
    /\ pc' = "recorded"
    /\ UNCHANGED <<variant, cookies, issued, countries, countriesStatus, idx,
                   response, leaders, k, leaders_per_country, raised, resps,
                   nLeadersReq, nCookieReq, lastReq, calls>>
    /\ UNCHANGED paraVars
    /\ UNCHANGED fileVars
    /\ UNCHANGED <<trace, cookieReqs>>

(***************************************************************************)
(* save and read: json.dump(..., ensure_ascii=False, indent=2) writes the  *)
(* map to leaders.json as a sequence of tokens (punctuation, layout        *)
(* whitespace, key and value strings, and the characters of a paragraph    *)
(* text between quotes); json.load reads the value back from them.         *)
(***************************************************************************)
IndentWidth == 2

Punct(c) == [k |-> "punct", v |-> c]
Space == [k |-> "ws", v |-> " "]
Str(str) == [k |-> "str", v |-> str]
Ch(c) == [k |-> "ch", v |-> c]
Quote == Ch("\"")

\* A new line and the indentation of a nesting depth.
Newline(depth) == <<[k |-> "ws", v |-> "\n"]>> \o Rep(Space, IndentWidth * depth)

EscapeChar_Bare(c) == <<Ch(c)>>

\* The encoder's escapes inside a string: \" \\ \n \t.
EscapeChar(c) ==
    CASE c \in {"\"", "\\"} -> <<Ch("\\"), Ch(c)>>
      [] c = "\n" -> <<Ch("\\"), Ch("n")>>
      [] c = "\t" -> <<Ch("\\"), Ch("t")>>
      [] OTHER -> <<Ch(c)>>

DumpText(chars) ==
    <<Quote>> \o Flatten([j \in 1..Len(chars) |-> EscapeChar(chars[j])]) \o <<Quote>>

\* The items of a non-empty container, one per line, separated by commas.
RECURSIVE Lines(_, _)
Lines(items, depth) ==
    IF Len(items) = 1 THEN Newline(depth) \o items[1]
    ELSE Newline(depth) \o items[1] \o <<Punct(",")>> \o Lines(Tail(items), depth)

Container(open, close, items, depth) ==
    IF items = <<>> THEN <<Punct(open), Punct(close)>>
    ELSE <<Punct(open)>> \o Lines(items, depth + 1) \o Newline(depth) \o <<Punct(close)>>

Member(key, value) == <<Str(key), Punct(":"), Space>> \o value

\* The fields of a leader in the order of its dict.
FieldOrder == <<"name", "wikipedia_url", "first_paragraph">>
Fields(leader) == SelectSeq(FieldOrder, LAMBDA f : f \in DOMAIN leader.v)

DumpField(leader, f) ==
    Member(f, IF f = "first_paragraph" THEN DumpText(leader.v[f])
              ELSE <<Str(leader.v[f])>>)

DumpLeader(leader, depth) ==
    LET fs == Fields(leader)
    IN  Container("{", "}", [j \in 1..Len(fs) |-> DumpField(leader, fs[j])], depth)

DumpLeaders(list, depth) ==
    Container("[", "]", [j \in 1..Len(list) |-> DumpLeader(list[j], depth + 1)], depth)

\* The keys of a dict in insertion order: each country where it first
\* came up in the loop.
KeyOrder(list) ==
    LET first == SelectSeq([j \in 1..Len(list) |-> j],
                           LAMBDA j : \A h \in 1..(j - 1) : list[h] # list[j])
    IN  [n \in 1..Len(first) |-> list[first[n]]]

json_dump(dict, keys) ==
    Container("{", "}",
              [j \in 1..Len(keys) |-> Member(keys[j], DumpLeaders(dict[keys[j]], 1))], 0)

\* json.load: the decoder's result, a value and the position after it.
Failed == [ok |-> FALSE]
Parsed(value, next) == [ok |-> TRUE, val |-> value, next |-> next]

IsPunct(toks, i, c) == i <= Len(toks) /\ toks[i].k = "punct" /\ toks[i].v = c
IsChar(toks, i, c) == i <= Len(toks) /\ toks[i].k = "ch" /\ toks[i].v = c

\* The first position from i on that is not layout whitespace.
RECURSIVE SkipWs(_, _)
SkipWs(toks, i) ==
    IF i <= Len(toks) /\ toks[i].k = "ws" THEN SkipWs(toks, i + 1) ELSE i

\* Inside a string that opens at position open, the character at j is
\* escaped when an odd number of backslashes stands right before it.
RECURSIVE IsEscaped(_, _, _)
IsEscaped(toks, open, j) ==
    /\ j - 1 > open
    /\ IsChar(toks, j - 1, "\\")
    /\ ~ IsEscaped(toks, open, j - 1)

Unescape(c) ==
    CASE c = "n" -> "\n"
      [] c = "t" -> "\t"
      [] OTHER -> c

\* A string: from the opening quote to the first quote that is not
\* escaped, every escape sequence decoded.
ParseText(toks, open) ==
    LET ends == {j \in (open + 1)..Len(toks) :
                    \/ toks[j].k # "ch"
                    \/ toks[j].v = "\"" /\ ~ IsEscaped(toks, open, j)}
    IN  IF ends = {} THEN Failed
        ELSE LET close == CHOOSE j \in ends : \A h \in ends : j <= h
                 Kept(j) == IsEscaped(toks, open, j) \/ toks[j].v # "\\"
                 kept == SelectSeq([n \in 1..(close - open - 1) |-> open + n], Kept)
             IN  IF toks[close].k # "ch" THEN Failed
                 ELSE Parsed([n \in 1..Len(kept) |->
                                IF IsEscaped(toks, open, kept[n])
                                THEN Unescape(toks[kept[n]].v)
                                ELSE toks[kept[n]].v],
                             close + 1)

RECURSIVE ParseValue(_, _)
RECURSIVE ParseMembers(_, _, _)
RECURSIVE ParseElements(_, _, _)

ParseValue(toks, from) ==
    LET i == SkipWs(toks, from)
        j == SkipWs(toks, i + 1)
    IN  IF i > Len(toks) THEN Failed
        ELSE IF toks[i].k = "str" THEN Parsed(toks[i].v, i + 1)
        ELSE IF IsChar(toks, i, "\"") THEN ParseText(toks, i)
        ELSE IF IsPunct(toks, i, "{")
             THEN IF IsPunct(toks, j, "}") THEN Parsed(JObject(<<>>), j + 1)
                  ELSE ParseMembers(toks, j, <<>>)
        ELSE IF IsPunct(toks, i, "[")
             THEN IF IsPunct(toks, j, "]") THEN Parsed(JArray(<<>>), j + 1)
                  ELSE ParseElements(toks, j, <<>>)
        ELSE Failed

\* "key": value pairs up to the closing brace; i is at a key.
ParseMembers(toks, i, acc) ==
    LET colon == SkipWs(toks, i + 1)
        r == ParseValue(toks, colon + 1)
        sep == SkipWs(toks, r.next)
    IN  IF i > Len(toks) \/ toks[i].k # "str" THEN Failed
        ELSE IF ~ IsPunct(toks, colon, ":") THEN Failed
        ELSE IF ~ r.ok THEN Failed
        ELSE IF IsPunct(toks, sep, ",")
             THEN ParseMembers(toks, SkipWs(toks, sep + 1), Put(acc, toks[i].v, r.val))
        ELSE IF IsPunct(toks, sep, "}")
             THEN Parsed(JObject(Put(acc, toks[i].v, r.val)), sep + 1)
        ELSE Failed

\* Values up to the closing bracket; i is at a value.
ParseElements(toks, i, acc) ==
    LET r == ParseValue(toks, i)
        sep == SkipWs(toks, r.next)
    IN  IF ~ r.ok THEN Failed
        ELSE IF IsPunct(toks, sep, ",")
             THEN ParseElements(toks, SkipWs(toks, sep + 1), Append(acc, r.val))
        ELSE IF IsPunct(toks, sep, "]")
             THEN Parsed(JArray(Append(acc, r.val)), sep + 1)
        ELSE Failed

\* The whole document is one value.
json_load(toks) ==
    LET r == ParseValue(toks, 1)
    IN  IF r.ok /\ SkipWs(toks, r.next) > Len(toks) THEN r ELSE Failed

\* The decoded document as the program holds it: a dict of lists.
Native(value) ==
    IF value.t = "object"
    THEN [c \in DOMAIN value.v |->
            IF value.v[c].t = "array" THEN value.v[c].v ELSE value.v[c]]
    ELSE value

\* save(leaders_per_country): opening or writing the file may raise, which
\* nothing catches.
Save ==
    /\ pc = "returned"
    /\ \/ /\ pc' = "failed"
          /\ UNCHANGED document
       \/ /\ document' = [written |-> TRUE,
                          tokens |-> json_dump(leaders_per_country.map,
                                               KeyOrder(countries))]
          /\ pc' = "saved"
    /\ UNCHANGED loaded
    /\ UNCHANGED <<variant, cookies, issued, countries, countriesStatus,
                   leaders_per_country, lastReq, trace, cookieReqs>>
    /\ UNCHANGED loopVars
    /\ UNCHANGED paraVars

\* read("leaders.json"): opening the file or decoding it may raise.
Read ==
    /\ pc = "saved"
    /\ \/ /\ pc' = "failed"
          /\ UNCHANGED loaded
       \/ LET r == json_load(document.tokens)
          IN  IF r.ok
              THEN /\ loaded' = [loaded |-> TRUE, value |-> Native(r.val)]
                   /\ pc' = "read"
              ELSE /\ pc' = "failed"
                   /\ UNCHANGED loaded
    /\ UNCHANGED document
    /\ UNCHANGED <<variant, cookies, issued, countries, countriesStatus,
                   leaders_per_country, lastReq, trace, cookieReqs>>
    /\ UNCHANGED loopVars
    /\ UNCHANGED paraVars

Next ==
    \/ GetStatus
    \/ GetCookie
    \/ GetCountries
    \/ NextCountry
    \/ RequestLeaders
    \/ RenewCookie
    \/ RetryLeaders
    \/ CheckResponse
    \/ EnrichLeader
    \/ StoreLeaders
    \/ Save
    \/ Read

Spec == Init /\ [][Next]_vars

\* Every HTTP call and every file operation returns or raises: a step that
\* can be taken is taken.
SpecLive == Spec /\ WF_vars(Next)


(***************************************************************************)
(* get_first_paragraph on its own: a page's paragraph texts in, the        *)
(* returned text out.                                                      *)
(***************************************************************************)
Stub == <<"S", "t", "u", "b", ".">>

TestBlocks ==
    { Stub,
      <<"A", ".">> \o Rep("a", MinParagraphLength - 2),
      <<"B", ".">> \o Rep("b", MinParagraphLength - 1),
      Rep("c", MinParagraphLength + 1),
      <<"[", "1", "]", ".">> \o Rep("d", MinParagraphLength),
      <<"(", "x", ")", ".">> \o Rep("e", MinParagraphLength),
      Coordinates \o <<":", " ", "5", ".">> \o Rep("f", MinParagraphLength),
      <<"G", " ">> \o Coordinates \o <<".">> \o Rep("g", MinParagraphLength),
      <<"H", " ">> \o Sentence \o Rep("h", MinParagraphLength) }

TestPages ==
    UNION { [1..n -> TestBlocks] : n \in 0..MaxBlocks }

InitParagraph ==
    /\ variant = "procedural"
    /\ pc = "extract"
    /\ cookies = 0
    /\ issued = 0
    /\ countries = <<>>
    /\ countriesStatus = 0
    /\ idx = 0
    /\ response = NoResponse
    /\ leaders = <<>>
    /\ k = 0
    /\ all_leaders = EmptyDict
    /\ leaders_per_country = NotReturned
    /\ raised = FALSE
    /\ resps = <<>>
    /\ nLeadersReq = 0
    /\ nCookieReq = 0
    /\ lastReq = NoRequest
    /\ calls = <<>>
    /\ soup \in TestPages
    /\ clean_text = <<>>
    /\ raw_text = <<>>
    /\ trail = <<>>
    /\ again = <<>>
    /\ document = NoDocument
    /\ loaded = NotLoaded
    /\ trace = <<>>
    /\ cookieReqs = 0

ExtractParagraph ==
    /\ pc = "extract"
    /\ clean_text' = get_first_paragraph(soup)
    /\ pc' = "extracted"
    /\ UNCHANGED <<variant, cookies, issued, countries, countriesStatus,
                   leaders_per_country, lastReq, soup, raw_text, trail, again,
                   trace, cookieReqs>>
    /\ UNCHANGED loopVars
    /\ UNCHANGED fileVars

NextParagraph == ExtractParagraph

SpecParagraph == InitParagraph /\ [][NextParagraph]_vars

(***************************************************************************)
(* The sanitizer on its own: the four substitutions of get_first_paragraph *)
(* applied to one paragraph text that passed the filter, and applied again *)
(* to the text they produced.                                              *)
(***************************************************************************)
MaxPieces == 4

\* A paragraph opening that passes the filter whatever follows it.
Lead == <<"A", ".">> \o Rep("a", MinParagraphLength - 1)

Run == Rep("y", MaxShortParen - 1)

Pieces ==
    { <<"(">>, <<")">>, <<"/">>, <<" ", " ">>, <<"x">>, <<"[", "x", "]">>, Run }

PieceTexts ==
    UNION { { Flatten(ps) : ps \in [1..n -> Pieces] } : n \in 0..MaxPieces }

\* "He was born (b. 1920) and studied physics [1] in  Paris (/p..r..i../)."
\* with one token for each phonetic letter and for the stress mark.
Example ==
    <<"H", "e", " ", "w", "a", "s", " ", "b", "o", "r", "n", " ",
      "(", "b", ".", " ", "1", "9", "2", "0", ")", " ",
      "a", "n", "d", " ", "s", "t", "u", "d", "i", "e", "d", " ",
      "p", "h", "y", "s", "i", "c", "s", " ", "[", "1", "]", " ",
      "i", "n", " ", " ", "P", "a", "r", "i", "s", " ",
      "(", "/", "p", "EPSILON", "SCHWA", "IPA1", "r", "i", "LENGTH", "/", ")",
      ".">>

\* The example followed by enough text to pass the filter.
ExampleTail == <<" ">> \o Lead

\* One paragraph with a short aside, a long one and an empty pair.
Mixed ==
    Lead \o <<"(", "x", ")">> \o <<"(">> \o Run \o <<" ", " ", ")">> \o <<"(", ")">>

SanitizerInputs ==
    { Lead \o t : t \in PieceTexts }
        \cup { Example, Example \o ExampleTail, Mixed }

InitSanitize ==
    /\ variant = "procedural"
    /\ pc = "sanitize"
    /\ cookies = 0
    /\ issued = 0
    /\ countries = <<>>
    /\ countriesStatus = 0
    /\ idx = 0
    /\ response = NoResponse
    /\ leaders = <<>>
    /\ k = 0
    /\ all_leaders = EmptyDict
    /\ leaders_per_country = NotReturned
    /\ raised = FALSE
    /\ resps = <<>>
    /\ nLeadersReq = 0
    /\ nCookieReq = 0
    /\ lastReq = NoRequest
    /\ calls = <<>>
    /\ soup = <<>>
    /\ clean_text = <<>>
    /\ raw_text \in SanitizerInputs
    /\ trail = <<>>
    /\ again = <<>>
    /\ document = NoDocument
    /\ loaded = NotLoaded
    /\ trace = <<>>
    /\ cookieReqs = 0

restVars ==
    <<variant, cookies, issued, countries, countriesStatus,
      leaders_per_country, lastReq, soup, trace, cookieReqs>>

\* clean_text = re.sub(...) four times over; trail keeps each value.
SanitizeText ==
    /\ pc = "sanitize"
    /\ LET step1 == RemoveCitations(raw_text)
           step2 == RemovePronunciations(step1)
           step3 == RemoveShortParens(step2)
           step4 == CollapseWhitespace(step3)
       IN  /\ trail' = <<step1, step2, step3, step4>>
           /\ clean_text' = step4
    /\ pc' = "sanitized"
    /\ UNCHANGED <<raw_text, again>>
    /\ UNCHANGED restVars
    /\ UNCHANGED loopVars
    /\ UNCHANGED fileVars

\* The same four substitutions on the text they returned.
SanitizeAgain ==
    /\ pc = "sanitized"
    /\ again' = Sanitize(clean_text)
    /\ pc' = "resanitized"
    /\ UNCHANGED <<raw_text, trail, clean_text>>
    /\ UNCHANGED restVars
    /\ UNCHANGED loopVars
    /\ UNCHANGED fileVars

NextSanitize == SanitizeText \/ SanitizeAgain

SpecSanitize == InitSanitize /\ [][NextSanitize]_vars


(***************************************************************************)
(* Vocabulary of the properties.                                           *)
(***************************************************************************)
AuthStatus == {401, 403}
SuccessStatus == 200..299

\* Countries whose turn of the loop is over.
Finished ==
    IF pc \in {"recorded", "returned", "saved", "read", "failed"} THEN idx
    ELSE IF idx = 0 THEN 0 ELSE idx - 1

\* The original response, or the retried one after a renewal; there is none
\* when a request raised or the renewal did.
HasFinalResponse ==
    /\ resps # <<>>
    /\ Len(resps) = 2 \/ resps[1].status \notin AuthStatus

FinalResponse == resps[Len(resps)]

\* The leader list a response body carries: a bare list, or the leaders
\* list of an object.
ResponseLeaders(body) ==
    IF body.t = "array" THEN body.v
    ELSE IF /\ body.t = "object"
            /\ "leaders" \in DOMAIN body.v
            /\ body.v["leaders"].t = "array"
         THEN body.v["leaders"].v
         ELSE <<>>

WithUrl(entry) ==
    /\ entry.t = "object"
    /\ "wikipedia_url" \in DOMAIN entry.v
    /\ entry.v["wikipedia_url"] # ""

CallsFor(j) == {n \in 1..Len(calls) : calls[n].leader = j}

\* The text the extractor returned for the j-th leader.
TextFor(j) ==
    IF CallsFor(j) = {} THEN <<>>
    ELSE calls[CHOOSE n \in CallsFor(j) : TRUE].text

\* list with first_paragraph set on each leader that has a URL.
Enriched(list) ==
    [j \in 1..Len(list) |->
        IF WithUrl(list[j])
        THEN [t |-> "object",
              v |-> [f \in DOMAIN list[j].v \cup {"first_paragraph"} |->
                        IF f = "first_paragraph" THEN TextFor(j)
                        ELSE list[j].v[f]]]
        ELSE list[j]]

NotRetrieved ==
    \/ raised
    \/ HasFinalResponse /\ FinalResponse.status \notin SuccessStatus

(***************************************************************************)
(* C1: every country of the list /countries returned is a key of the map   *)
(* get_leaders returns, whatever the per-country outcomes were; a country  *)
(* whose leaders could not be retrieved (401/403, another non-success      *)
(* status, an exception) is recorded with the empty sequence.              *)
(***************************************************************************)
C1_EveryCountryIsKey ==
    /\ \A j \in 1..Finished : countries[j] \in DOMAIN all_leaders
    /\ (pc = "recorded" /\ NotRetrieved) => all_leaders[Country] = <<>>
    /\ pc = "returned" =>
          /\ Finished = Len(countries)
          /\ leaders_per_country = [returned |-> TRUE, map |-> all_leaders]

C1_Witness ==
    /\ pc = "returned"
    /\ Len(countries) = 2
    /\ countries[1] # countries[2]
    /\ leaders_per_country.map[countries[1]] = <<>>
    /\ leaders_per_country.map[countries[2]] # <<>>

(***************************************************************************)
(* C2, as claimed: for a country list of length N the returned map has     *)
(* exactly N keys.  A list naming a country twice refutes it.              *)
(***************************************************************************)
C2_ExactlyNKeys ==
    pc = "returned" =>
        Cardinality(DOMAIN leaders_per_country.map) = Len(countries)

(***************************************************************************)
(* C2, amended: the returned map has exactly as many keys as the list has  *)
(* distinct countries (N when the N countries are pairwise distinct),      *)
(* however many per-country fetches fail.                                  *)
(***************************************************************************)
C2_OneKeyPerDistinctCountry ==
    pc = "returned" =>
        Cardinality(DOMAIN leaders_per_country.map)
            = Cardinality({countries[j] : j \in 1..Len(countries)})

C2_Witness ==
    /\ pc = "returned"
    /\ Len(countries) = 2
    /\ countries[1] = countries[2]
    /\ Cardinality(DOMAIN leaders_per_country.map) = 1

(***************************************************************************)
(* C3: when the /leaders request of a country is answered 401 or 403 and   *)
(* the retried request is answered 200, exactly one /cookie request and    *)
(* exactly two /leaders requests (one retry) were made for the country,    *)
(* and what is recorded for it comes from the retried response: its        *)
(* leaders, enriched (the empty sequence when handling that response       *)
(* raised).                                                                *)
(***************************************************************************)
C3_OneRenewalOneRetry ==
    (/\ Len(resps) = 2
     /\ resps[1].status \in AuthStatus
     /\ resps[2].status = 200)
    => /\ nCookieReq = 1
       /\ nLeadersReq = 2
       /\ pc = "recorded" =>
             all_leaders[Country] =
                IF raised THEN <<>> ELSE Enriched(ResponseLeaders(resps[2].body))

C3_Witness ==
    /\ pc = "recorded"
    /\ Len(resps) = 2
    /\ resps[1].status = 401
    /\ resps[2].status = 200
    /\ nCookieReq = 1
    /\ ~raised
    /\ Len(all_leaders[Country]) = 3

(***************************************************************************)
(* C4: one turn of the loop makes at most two /leaders requests and at     *)
(* most one /cookie request; when the retried request is again answered    *)
(* 401 or 403 there is no further renewal or retry, the empty sequence is  *)
(* recorded and the loop goes on to the next country.                      *)
(***************************************************************************)
C4_RecoveredAtMostOnce ==
    /\ nLeadersReq <= 2
    /\ nCookieReq <= 1
    /\ (Len(resps) = 2 /\ resps[2].status \in AuthStatus) =>
          /\ pc \in {"check", "recorded"}
          /\ ~raised
          /\ pc = "recorded" => all_leaders[Country] = <<>>

C4_Witness ==
    /\ pc = "recorded"
    /\ Len(resps) = 2
    /\ resps[2].status \in AuthStatus
    /\ nLeadersReq = 2
    /\ nCookieReq = 1
    /\ all_leaders[Country] = <<>>
    /\ idx < Len(countries)

(***************************************************************************)
(* C5: every /leaders request is sent with the most recently acquired      *)
(* session, which is the session held: after a renewal the retry and the   *)
(* requests of all later countries use the new session, never a replaced   *)
(* one.                                                                    *)
(***************************************************************************)
C5_LatestSessionUsed ==
    /\ cookies = issued
    /\ lastReq.ep = "leaders" => lastReq.sess = issued

C5_Witness ==
    /\ lastReq.ep = "leaders"
    /\ idx = 2
    /\ nLeadersReq = 1
    /\ nCookieReq = 0
    /\ lastReq.sess = 2


(***************************************************************************)
(* C6, as claimed: the final /leaders response decides by its status: not  *)
(* a success status, the empty sequence is recorded; a success status,     *)
(* the leader list of the response is parsed and recorded.  Read with      *)
(* C7's proviso (nothing raised while the country was processed), a        *)
(* response with a success status other than 200 refutes it.               *)
(***************************************************************************)
C6_SuccessStatusDecides ==
    (pc = "recorded" /\ HasFinalResponse /\ ~raised) =>
        IF FinalResponse.status \in SuccessStatus
        THEN all_leaders[Country] = Enriched(ResponseLeaders(FinalResponse.body))
        ELSE all_leaders[Country] = <<>>

(***************************************************************************)
(* C6, amended: the final /leaders response decides by its status: any     *)
(* status other than 200, other 2xx codes included, records the empty      *)
(* sequence without raising and the loop continues; status 200 has the     *)
(* leader list parsed from that response and recorded, enriched, unless    *)
(* parsing or enriching raises, and then the empty sequence is recorded.   *)
(***************************************************************************)
C6_Status200Decides ==
    (pc = "recorded" /\ HasFinalResponse) =>
        IF FinalResponse.status = 200
        THEN all_leaders[Country] =
                IF raised THEN <<>>
                ELSE Enriched(ResponseLeaders(FinalResponse.body))
        ELSE all_leaders[Country] = <<>> /\ ~raised

C6_Witness ==
    /\ pc = "recorded"
    /\ HasFinalResponse
    /\ FinalResponse.status = 201
    /\ ResponseLeaders(FinalResponse.body) # <<>>
    /\ all_leaders[Country] = <<>>
    /\ idx < Len(countries)

BadShape(body) ==
    \/ body.t \notin {"array", "object"}
    \/ body.t = "object" /\ "leaders" \in DOMAIN body.v
                         /\ body.v["leaders"].t # "array"

BadEntry(body) ==
    \E j \in 1..Len(ResponseLeaders(body)) : ResponseLeaders(body)[j].t # "object"

\* A step in which a /leaders request or a Wikipedia fetch raises.
C7_RequestRaises ==
    \/ nLeadersReq' = nLeadersReq + 1 /\ ~lastReq'.ok
    \/ Len(calls') = Len(calls) + 1 /\ ~calls'[Len(calls')].ok

C7_MalformedResponse ==
    /\ pc = "recorded"
    /\ HasFinalResponse
    /\ FinalResponse.status = 200
    /\ BadShape(FinalResponse.body) \/ BadEntry(FinalResponse.body)

(***************************************************************************)
(* C7: a failure while one country is processed is caught at that          *)
(* country.  A /leaders request or a Wikipedia fetch that raises, and a    *)
(* 200 response whose body is no list and no object with a leaders list,   *)
(* or whose list holds an entry that is no object, end in the except       *)
(* clause; the step that catches a failure records the empty sequence for  *)
(* that country and changes the map at no other key; and the loop then     *)
(* goes on: to the next country, or to the return of the map after the     *)
(* last one.                                                               *)
(***************************************************************************)
C7_FailureCaughtAtCountry ==
    /\ [](C7_MalformedResponse => raised /\ all_leaders[Country] = <<>>)
    /\ [][C7_RequestRaises => raised' /\ ~raised]_vars
    /\ [][(raised' /\ ~raised) =>
            /\ pc' = "recorded"
            /\ idx' = idx
            /\ DOMAIN all_leaders' = DOMAIN all_leaders \cup {Country}
            /\ \A c \in DOMAIN all_leaders' :
                  all_leaders'[c] = IF c = Country THEN <<>> ELSE all_leaders[c]]_vars
    /\ [][(pc = "recorded" /\ raised) =>
            IF idx < Len(countries)
            THEN pc' = "request" /\ idx' = idx + 1 /\ all_leaders' = all_leaders
            ELSE pc' = "returned" /\ leaders_per_country'.map = all_leaders]_vars

C7_Witness ==
    /\ pc = "recorded"
    /\ raised
    /\ idx = 2
    /\ countries[1] # countries[2]
    /\ all_leaders[countries[1]] # <<>>
    /\ all_leaders[countries[2]] = <<>>
    /\ lastReq.ep = "wiki"
    /\ Len(calls) = 2

(***************************************************************************)
(* C8, as claimed: a /cookie request that raises, the first one or a       *)
(* renewal, aborts the run and no map is returned.                         *)
(***************************************************************************)
C8_AnyCookieFailureAborts ==
    (lastReq.ep = "cookie" /\ ~lastReq.ok) =>
        pc = "aborted" /\ leaders_per_country = NotReturned

(***************************************************************************)
(* C8, amended: the first /cookie request, made before the loop, is not    *)
(* guarded: when it raises the run aborts and no map is returned.  A       *)
(* renewal /cookie request is made inside the loop's try: when it raises,  *)
(* the failure is caught at that country, which is recorded with the       *)
(* empty sequence, and the run continues.                                  *)
(***************************************************************************)
C8_OnlyFirstCookieFailureAborts ==
    /\ pc = "aborted" => leaders_per_country = NotReturned
    /\ (lastReq.ep = "cookie" /\ ~lastReq.ok) =>
          IF idx = 0
          THEN pc = "aborted"
          ELSE /\ pc # "aborted"
               /\ nCookieReq = 1 =>
                     /\ pc = "recorded"
                     /\ raised
                     /\ all_leaders[Country] = <<>>
                     /\ nLeadersReq = 1

C8_Witness ==
    /\ lastReq.ep = "cookie"
    /\ ~lastReq.ok
    /\ idx = 1
    /\ nCookieReq = 1
    /\ pc = "recorded"
    /\ idx < Len(countries)

C9_Recorded == all_leaders[Country]
C9_Received == ResponseLeaders(FinalResponse.body)

(***************************************************************************)
(* C9: in a country just recorded with a non-empty sequence, the extractor *)
(* was called exactly once for each leader with a non-empty wikipedia_url, *)
(* in list order, and what it returned is that leader's first_paragraph;   *)
(* a leader without a URL, or with an empty one, is recorded as received;  *)
(* all other fields and the order of the leaders are those of the          *)
(* response.                                                               *)
(***************************************************************************)
C9_EnrichmentFrame ==
    (pc = "recorded" /\ C9_Recorded # <<>>) =>
        /\ HasFinalResponse
        /\ Len(C9_Recorded) = Len(C9_Received)
        /\ \A n \in 1..Len(calls) : calls[n].ok
        /\ \A n \in 1..Len(calls) : WithUrl(C9_Received[calls[n].leader])
        /\ \A n \in 1..Len(calls) : \A m \in 1..Len(calls) :
              n < m => calls[n].leader < calls[m].leader
        /\ \A j \in 1..Len(C9_Received) :
              IF WithUrl(C9_Received[j])
              THEN /\ Cardinality(CallsFor(j)) = 1
                   /\ DOMAIN C9_Recorded[j].v
                        = DOMAIN C9_Received[j].v \cup {"first_paragraph"}
                   /\ C9_Recorded[j].v["first_paragraph"] = TextFor(j)
                   /\ \A f \in DOMAIN C9_Received[j].v \ {"first_paragraph"} :
                         C9_Recorded[j].v[f] = C9_Received[j].v[f]
              ELSE /\ CallsFor(j) = {}
                   /\ C9_Recorded[j] = C9_Received[j]

C9_Witness ==
    /\ pc = "recorded"
    /\ Len(C9_Recorded) = 2
    /\ Len(calls) = 1
    /\ calls[1].leader = 2
    /\ C9_Recorded[1] = LeaderC
    /\ C9_Recorded[2].v["first_paragraph"] = NoParagraph

C10_Begins(text, word) ==
    /\ Len(text) >= Len(word)
    /\ \A j \in 1..Len(word) : text[j] = word[j]

C10_Qualifies(text) ==
    /\ Len(text) > 80
    /\ \E j \in 1..Len(text) : text[j] = "."
    /\ ~ C10_Begins(text, <<"[">>)
    /\ ~ C10_Begins(text, <<"(">>)
    /\ ~ C10_Begins(text, <<"C", "o", "o", "r", "d", "i", "n", "a", "t", "e", "s">>)

(***************************************************************************)
(* C10: get_first_paragraph returns the sanitized text of the first block, *)
(* in document order, that is longer than 80 characters, holds a period    *)
(* and does not begin with "[", "(" or "Coordinates"; when no block        *)
(* qualifies, in particular when no block is longer than 80 characters,    *)
(* it returns "No suitable paragraph found.".                              *)
(***************************************************************************)
C10_FirstQualifyingParagraph ==
    pc = "extracted" =>
        /\ \A j \in 1..Len(soup) :
              (C10_Qualifies(soup[j]) /\ \A h \in 1..(j - 1) : ~C10_Qualifies(soup[h]))
                 => clean_text = Sanitize(soup[j])
        /\ (\A j \in 1..Len(soup) : ~C10_Qualifies(soup[j]))
              => clean_text = NoParagraph
        /\ (\A j \in 1..Len(soup) : Len(soup[j]) <= 80)
              => clean_text = NoParagraph

C10_Witness ==
    /\ pc = "extracted"
    /\ Len(soup) = 2
    /\ C10_Qualifies(soup[1])
    /\ C10_Qualifies(soup[2])
    /\ Sanitize(soup[1]) # Sanitize(soup[2])
    /\ Sanitize(soup[1]) # soup[1]
    /\ clean_text = Sanitize(soup[1])


(***************************************************************************)
(* The sanitizer: claims C11 to C13, checked under SpecSanitize.           *)
(***************************************************************************)

\* C11: for every input text, applying the four sanitizer steps to the
\* sanitizer's own output yields the same output.
C11_SanitizerIdempotent ==
    pc = "resanitized" => again = clean_text

\* "He was born and studied physics in Paris."
ExampleClaimed ==
    <<"H", "e", " ", "w", "a", "s", " ", "b", "o", "r", "n", " ",
      "a", "n", "d", " ", "s", "t", "u", "d", "i", "e", "d", " ",
      "p", "h", "y", "s", "i", "c", "s", " ",
      "i", "n", " ", "P", "a", "r", "i", "s", ".">>

\* C12: the sanitizer maps "He was born (b. 1920) and studied physics [1]
\* in  Paris (/p..r..i../)." to "He was born and studied physics in Paris.",
\* on its own and as the opening of a longer paragraph.
C12_ExampleOutput ==
    pc = "sanitized" =>
        /\ raw_text = Example => clean_text = ExampleClaimed
        /\ raw_text = Example \o ExampleTail
              => clean_text = ExampleClaimed \o ExampleTail

\* The text the third substitution receives and the text it produces.
AfterStep2 == trail[2]
AfterStep3 == trail[3]

\* The parentheticals of the text after the first two steps: an opening
\* parenthesis p and the first closing parenthesis q after it.
Parentheticals ==
    { pq \in (1..Len(AfterStep2)) \X (1..Len(AfterStep2)) :
        /\ AfterStep2[pq[1]] = "("
        /\ pq[2] = FirstAfter(AfterStep2, pq[1], ")") }

ContentLen(pq) == pq[2] - pq[1] - 1

Before(p) == SubSeq(AfterStep2, 1, p - 1)
After(q) == SubSeq(AfterStep2, q + 1, Len(AfterStep2))

\* The parenthetical is gone from the output: what precedes some opening
\* parenthesis at or before its own, and what follows its closing one,
\* are all that is left of the text around it.
Removed(pq) ==
    \E r \in 1..pq[1] :
        /\ <<r, pq[2]>> \in Parentheticals
        /\ AfterStep3 = RemoveShortParens(Before(r)) \o RemoveShortParens(After(pq[2]))

\* The parenthetical stands in the output as it was, between what the
\* step makes of the text before it and of the text after it.
Unchanged(pq) ==
    AfterStep3 = RemoveShortParens(Before(pq[1]))
                     \o SubSeq(AfterStep2, pq[1], pq[2])
                     \o RemoveShortParens(After(pq[2]))

\* The claim as stated: 25 characters or fewer removed, longer unchanged.
C13_AtMost25RemovedLongerKept ==
    pc = "sanitized" =>
        \A pq \in Parentheticals :
            /\ ContentLen(pq) <= 25 => Removed(pq)
            /\ ContentLen(pq) > 25 => Unchanged(pq)

\* A parenthetical of 1 to 25 characters ends at the same closing
\* parenthesis as this one (it is this one, or nested with it).
SharesShort(pq) ==
    \E r \in 1..Len(AfterStep2) :
        /\ <<r, pq[2]>> \in Parentheticals
        /\ ContentLen(<<r, pq[2]>>) \in 1..25

\* C13: in the sanitizer's third step every parenthetical remaining after
\* the first two steps whose content has 1 to 25 characters is removed, and
\* every parenthetical whose content is empty or longer than 25 characters
\* appears unchanged in the output, unless a parenthetical of 1 to 25
\* characters is nested with it up to the same closing parenthesis.
C13_OneTo25RemovedOthersKept ==
    pc = "sanitized" =>
        \A pq \in Parentheticals :
            /\ ContentLen(pq) \in 1..25 => Removed(pq)
            /\ ~ SharesShort(pq) => Unchanged(pq)

\* Of the three parentheticals of one paragraph the short one is removed,
\* the one of 26 characters and the empty one are kept.
C13_Witness ==
    /\ pc = "sanitized"
    /\ raw_text = Mixed
    /\ AfterStep3 = Lead \o <<"(">> \o Run \o <<" ", " ", ")">> \o <<"(", ")">>


(***************************************************************************)
(* Persistence: claim C14, checked under Spec.                             *)
(***************************************************************************)

\* C14: for every map M that get_leaders can return, reading back the
\* document written by save(M) yields a map content-equal to M: the same
\* country keys, the same leader sequence per key, the same fields and
\* first_paragraph values.  Whenever the document is written it decodes,
\* and to M; the dict that read() loads is M.
C14_RoundTrip ==
    /\ document # NoDocument =>
          LET r == json_load(document.tokens)
          IN  r.ok /\ Native(r.val) = leaders_per_country.map
    /\ pc = "read" =>
          /\ loaded # NotLoaded
          /\ loaded.value = leaders_per_country.map
          /\ DOMAIN loaded.value = {countries[j] : j \in 1..Len(countries)}

\* A map of two countries, one with leaders whose paragraph text holds
\* quotes and a backslash, one empty, has been saved and read back.
C14_Witness ==
    /\ pc = "read"
    /\ Len(countries) = 2
    /\ countries[1] # countries[2]
    /\ loaded.value[countries[2]] = <<>>
    /\ \E j \in 1..Len(loaded.value[countries[1]]) :
          LET leader == loaded.value[countries[1]][j]
          IN  /\ "first_paragraph" \in DOMAIN leader.v
              /\ Contains(leader.v["first_paragraph"], "\"")
              /\ Contains(leader.v["first_paragraph"], "\\")


(***************************************************************************)
(* Termination: claim C15, checked under SpecLive.                         *)
(***************************************************************************)
Completed ==
    /\ pc = "read"
    /\ idx = Len(countries)
    /\ leaders_per_country # NotReturned
    /\ DOMAIN leaders_per_country.map = {countries[j] : j \in 1..Len(countries)}
    /\ document # NoDocument
    /\ loaded # NotLoaded

\* An uncaught failure of persistence: save or read raised.
PersistenceFailed == pc = "failed"

\* An uncaught failure before the loop, by the request that raised.
AbortedBy(eps) == pc = "aborted" /\ lastReq.ep \in eps

\* The claim as stated: the run completes unless the first /cookie
\* request, the /countries request or persistence aborts it.
C15_CompletesUnlessListedFatal ==
    <>(\/ Completed
       \/ PersistenceFailed
       \/ AbortedBy({"cookie", "countries"}))

\* C15: every HTTP call returning or raising, a run over a finite country
\* list eventually completes: unless a fatal error (the /status probe
\* raising, the initial session acquisition, /countries, persistence I/O)
\* aborts it, get_leaders terminates having processed each country once, in
\* order, and returns the full map, which is then saved and reloaded.
C15_CompletesUnlessFatal ==
    /\ <>(\/ Completed
          \/ PersistenceFailed
          \/ AbortedBy({"status", "cookie", "countries"}))
    /\ [](pc = "aborted" => idx = 0 /\ leaders_per_country = NotReturned)
    /\ [](pc = "failed" => leaders_per_country # NotReturned)
    /\ [](pc \in {"returned", "saved", "read"} =>
            /\ idx = Len(countries)
            /\ leaders_per_country.map = all_leaders
            /\ DOMAIN all_leaders = {countries[j] : j \in 1..Len(countries)})
    /\ [][idx' # idx => (idx' = idx + 1 /\ pc' = "request")]_vars
    /\ [][(pc \in {"aborted", "failed", "read"}) => (pc' = pc)]_vars

\* A run over the longest country list has been saved and reloaded.
C15_Witness ==
    /\ Completed
    /\ Len(countries) = MaxCountries
    /\ cookieReqs > 1


(***************************************************************************)
(* The /countries request: claim C16, checked under Spec.                  *)
(***************************************************************************)

\* C16: when the /countries request is answered with 401/403 or any other
\* non-success response, no session renewal and no retry is made for it and
\* the run aborts: no /leaders request is issued and no map is produced or
\* saved.
C16_CountriesFailureAborts ==
    (countriesStatus # 0 /\ countriesStatus \notin SuccessStatus) =>
        /\ trace = IF variant = "procedural"
                   THEN <<"status", "cookie", "countries">>
                   ELSE <<"cookie", "status", "countries">>
        /\ cookieReqs = 1
        /\ pc = "aborted"
        /\ idx = 0
        /\ leaders_per_country = NotReturned
        /\ document = NoDocument


(***************************************************************************)
(* The two variants: claim C17, checked under Spec.                        *)
(***************************************************************************)
IsPrefix(p, q) == Len(p) <= Len(q) /\ SubSeq(q, 1, Len(p)) = p

ProceduralOrder == <<"status", "cookie", "countries">>
OopOrder == <<"cookie", "status", "countries">>

\* The claim as stated: the two variants issue the same sequence of
\* requests, so the object-oriented one issues the sequence of the
\* procedural one: /status, /cookie, /countries, then the loop's requests.
C17_SameRequestSequence ==
    IsPrefix(trace, ProceduralOrder)

\* C17: the procedural and the object-oriented variant behave the same
\* from the /countries request on, which both reach holding the first
\* session issued and having sent one /status and one /cookie request; they
\* differ in the order of these two: the procedural variant sends /status
\* first, the object-oriented one /cookie (in __init__) and then /status, so
\* when the first of the two raises the other is never sent.
C17_SameFromCountriesOn ==
    /\ IsPrefix(trace, IF variant = "procedural" THEN ProceduralOrder ELSE OopOrder)
    /\ pc \notin {"status", "cookie", "aborted"} =>
          /\ Len(trace) >= 2
          /\ {trace[j] : j \in 1..2} = {"status", "cookie"}
          /\ issued >= 1
          /\ cookieReqs >= 1
    /\ pc = "countries" =>
          /\ cookies = 1
          /\ issued = 1
          /\ cookieReqs = 1
          /\ idx = 0
          /\ all_leaders = EmptyDict
    /\ pc \notin {"status", "cookie", "countries", "aborted"} => Len(trace) = 3

\* The object-oriented variant holds a session when its /status request
\* raises: a state the procedural variant is never in.
C17_Witness ==
    /\ variant = "oop"
    /\ pc = "aborted"
    /\ trace = <<"cookie", "status">>
    /\ issued = 1


(***************************************************************************)
(* All or nothing: claim C18, checked under Spec.                          *)
(***************************************************************************)

\* What the extractor can return.
ExtractorTexts == {get_first_paragraph(page) : page \in WikiPages}

\* value is the list received with every leader that has a non-empty
\* wikipedia_url carrying a text of the extractor, the others as received.
CompleteFor(value, received) ==
    /\ Len(value) = Len(received)
    /\ \A j \in 1..Len(received) :
          IF WithUrl(received[j])
          THEN \E text \in ExtractorTexts :
                  value[j] = SetFirstParagraph(received[j], text)
          ELSE value[j] = received[j]

Complete(value) ==
    \E r \in LeadersResponses : CompleteFor(value, ResponseLeaders(r.body))

\* C18: the value recorded for a country is all-or-nothing: the empty
\* sequence or the complete leader list of the response with every leader
\* that has a non-empty wikipedia_url enriched; if the extractor fails on
\* the k-th leader the country is recorded as empty even though leaders
\* 1..k-1 were already enriched, and no partially enriched list ever
\* appears in the map.
C18_AllOrNothing ==
    /\ \A c \in DOMAIN all_leaders :
          all_leaders[c] = <<>> \/ Complete(all_leaders[c])
    /\ pc = "recorded" =>
          /\ (\E n \in 1..Len(calls) : ~ calls[n].ok) => all_leaders[Country] = <<>>
          /\ all_leaders[Country] # <<>> =>
                /\ HasFinalResponse
                /\ all_leaders[Country] = Enriched(ResponseLeaders(FinalResponse.body))
    /\ leaders_per_country # NotReturned =>
          \A c \in DOMAIN leaders_per_country.map :
              \/ leaders_per_country.map[c] = <<>>
              \/ Complete(leaders_per_country.map[c])

\* The extractor raised on the third leader, the second one with a URL,
\* after the first was enriched: the country is recorded as empty.
C18_Witness ==
    /\ pc = "recorded"
    /\ raised
    /\ Len(calls) = 2
    /\ calls[1].ok
    /\ ~ calls[2].ok
    /\ calls[2].leader = 3
    /\ "first_paragraph" \in DOMAIN leaders[1].v
    /\ leaders[1].v["first_paragraph"] \in ExtractorTexts
    /\ all_leaders[Country] = <<>>


(***************************************************************************)
(* Renewals: claim C19, checked under Spec.                                *)
(***************************************************************************)

\* C19: a session renewal and a retry happen only in response to a 401 or
\* 403 on the first /leaders request of a country: for any other first
\* response exactly one /leaders request and no /cookie request is made for
\* that country, so a run over N countries makes at most 1 + N /cookie
\* requests in total.
C19_RenewalOnlyOnAuthFailure ==
    /\ nCookieReq <= 1
    /\ nLeadersReq <= 2
    /\ (nCookieReq = 1 \/ nLeadersReq = 2) =>
          /\ resps # <<>>
          /\ resps[1].status \in AuthStatus
    /\ (pc \in {"check", "enrich", "recorded"} /\ resps # <<>>
            /\ resps[1].status \notin AuthStatus) =>
          /\ nLeadersReq = 1
          /\ nCookieReq = 0
          /\ Len(resps) = 1
    /\ cookieReqs <= 1 + idx
    /\ idx <= Len(countries)
    /\ leaders_per_country # NotReturned => cookieReqs <= 1 + Len(countries)

\* The first country took a renewal; the second, answered 500, took none.
C19_Witness ==
    /\ pc = "recorded"
    /\ idx = 2
    /\ cookieReqs = 2
    /\ resps # <<>>
    /\ resps[1].status = 500
    /\ nLeadersReq = 1
    /\ nCookieReq = 0


(***************************************************************************)
(* A renewal that raises: claim C20, checked under Spec.                   *)
(***************************************************************************)

\* The step in which the renewal /cookie request raises.
C20_RenewalRaises ==
    /\ pc = "renew"
    /\ cookieReqs' = cookieReqs + 1
    /\ ~ lastReq'.ok

\* The renewal of the country just recorded raised.
C20_RenewalRaised ==
    /\ pc = "recorded"
    /\ nCookieReq = 1
    /\ lastReq.ep = "cookie"
    /\ ~ lastReq.ok

\* The first request of the country after one whose renewal raised.
C20_NextFirstRequest ==
    /\ pc = "request"
    /\ lastReq.ep = "cookie"
    /\ ~ lastReq.ok
    /\ nLeadersReq' = nLeadersReq + 1

\* C20: if the renewal /cookie request raises while processing a country,
\* the held session is left unchanged (still the stale one), no retry of
\* the /leaders request is made for that country, and the next country's
\* first /leaders request is sent with that same unchanged session.
C20_FailedRenewalKeepsSession ==
    /\ [][C20_RenewalRaises =>
            /\ cookies' = cookies
            /\ issued' = issued
            /\ nLeadersReq' = nLeadersReq
            /\ pc' = "recorded"]_vars
    /\ [](C20_RenewalRaised =>
            /\ nLeadersReq = 1
            /\ Len(resps) = 1
            /\ resps[1].status \in AuthStatus
            /\ cookies >= 1
            /\ all_leaders[Country] = <<>>)
    /\ [][C20_RenewalRaised =>
            /\ cookies' = cookies
            /\ pc' \in {"request", "returned"}
            /\ lastReq' = lastReq]_vars
    /\ [][C20_NextFirstRequest =>
            /\ lastReq'.ep = "leaders"
            /\ lastReq'.sess = cookies
            /\ cookies' = cookies]_vars

\* The second country's first request went out with session 1, the only
\* one ever issued, after the first country's renewal raised.
C20_Witness ==
    /\ idx = 2
    /\ nLeadersReq = 1
    /\ nCookieReq = 0
    /\ lastReq.ep = "leaders"
    /\ lastReq.sess = 1
    /\ cookies = 1
    /\ issued = 1
    /\ cookieReqs = 2

=============================================================================
